---- MODULE Spec2Model ----
(***************************************************************************)
(* Model of src/src/index.ts: the field-injection templating of the        *)
(* business-card template and the POST /github/preview handler that        *)
(* publishes the rendered document as a new branch through the GitHub API. *)
(*                                                                         *)
(* Strings are sequences of one-character strings.  A JavaScript value of  *)
(* unknown type is a record [type, str]; the `fields` member of a body is  *)
(* a record [type, entries].  A parsed document is a function from         *)
(* selector to the sequence of nodes matching it, in document order; the   *)
(* nodes matched by different selectors are distinct leaf elements.        *)
(***************************************************************************)
EXTENDS Integers, Sequences, FiniteSets, TLC

\* ------------------------------------------------------------------ bounds
\* Longest raw string value of a field in SpecApply.
MaxLen == 2
MaxSanitizeLen == 4
MaxExcess == 2
\* Number of concurrent requests in Spec.
NumRequests == 2

\* ----------------------------------------------------------------- strings
Whitespace == {" ", "\t"}

\* String.prototype.toUpperCase / toLowerCase on one character.
UpperChar(c) == CASE c = "a" -> "A" [] c = "b" -> "B" [] OTHER -> c
LowerChar(c) == CASE c = "A" -> "a" [] c = "B" -> "b" [] OTHER -> c
toUpperCase(s) == [i \in 1..Len(s) |-> UpperChar(s[i])]
toLowerCase(s) == [i \in 1..Len(s) |-> LowerChar(s[i])]

RECURSIVE trimStart(_)
trimStart(s) ==
    IF s # <<>> /\ Head(s) \in Whitespace THEN trimStart(Tail(s)) ELSE s

RECURSIVE trimEnd(_)
trimEnd(s) ==
    IF s # <<>> /\ s[Len(s)] \in Whitespace
    THEN trimEnd(SubSeq(s, 1, Len(s) - 1))
    ELSE s

\* String.prototype.trim
trim(s) == trimEnd(trimStart(s))

\* value.replace(/\s+/g, " "): every maximal run of whitespace becomes one space.
RECURSIVE replaceWhitespaceRuns(_)
replaceWhitespaceRuns(s) ==
    IF s = <<>> THEN <<>>
    ELSE IF Head(s) \in Whitespace
         THEN <<" ">> \o replaceWhitespaceRuns(trimStart(Tail(s)))
         ELSE <<Head(s)>> \o replaceWhitespaceRuns(Tail(s))

\* Array.prototype.join(" ") on an array of strings.
RECURSIVE joinWithSpace(_)
joinWithSpace(parts) ==
    IF parts = <<>> THEN <<>>
    ELSE IF Len(parts) = 1 THEN parts[1]
    ELSE parts[1] \o <<" ">> \o joinWithSpace(Tail(parts))

\* ------------------------------------------------------- JavaScript values
JsString(s) == [type |-> "string", str |-> s]
JsNumber == [type |-> "number", str |-> <<>>]
JsUndefined == [type |-> "undefined", str |-> <<>>]

\* ---------------------------------------------------------- field registry
NoIndex == [set |-> FALSE, at |-> 0]
Index(n) == [set |-> TRUE, at |-> n]

TEMPLATE_FIELD_CONFIGS ==
    << [id |-> "phone", selector |-> ".card__phone", index |-> NoIndex, attr |-> ""],
       [id |-> "companyWordLeft", selector |-> ".card__company-word", index |-> Index(0), attr |-> ""],
       [id |-> "companyAmpersand", selector |-> ".card__company-ampersand", index |-> NoIndex, attr |-> ""],
       [id |-> "companyWordRight", selector |-> ".card__company-word", index |-> Index(1), attr |-> ""],
       [id |-> "companyTagline", selector |-> ".card__company-tagline", index |-> NoIndex, attr |-> ""],
       [id |-> "personFirst", selector |-> ".card__person-first", index |-> NoIndex, attr |-> ""],
       [id |-> "personLast", selector |-> ".card__person-last", index |-> NoIndex, attr |-> ""],
       [id |-> "title", selector |-> ".card__title", index |-> NoIndex, attr |-> ""],
       [id |-> "address", selector |-> ".card__bottom-address", index |-> NoIndex, attr |-> ""],
       [id |-> "faxLabel", selector |-> ".card__bottom-contact--fax .card__bottom-label", index |-> NoIndex, attr |-> ""],
       [id |-> "faxValue", selector |-> ".card__bottom-contact--fax .card__bottom-value", index |-> NoIndex, attr |-> ""],
       [id |-> "telexLabel", selector |-> ".card__bottom-contact--telex .card__bottom-label", index |-> NoIndex, attr |-> ""],
       [id |-> "telexValue", selector |-> ".card__bottom-contact--telex .card__bottom-value", index |-> NoIndex, attr |-> ""] >>

FieldIds == {TEMPLATE_FIELD_CONFIGS[i].id : i \in DOMAIN TEMPLATE_FIELD_CONFIGS}

\* TEMPLATE_FIELD_MAP.has(key) and TEMPLATE_FIELD_MAP.get(key)
TEMPLATE_FIELD_MAP_has(key) == key \in FieldIds
TEMPLATE_FIELD_MAP_get(key) ==
    TEMPLATE_FIELD_CONFIGS[CHOOSE i \in DOMAIN TEMPLATE_FIELD_CONFIGS :
                               TEMPLATE_FIELD_CONFIGS[i].id = key]

\* -------------------------------------------------------------- sanitizing
sanitizeFieldValue_TrimsOnly(value) ==
    IF value.type # "string" THEN <<>>
    ELSE trim(value.str)

sanitizeFieldValue(value) ==
    IF value.type # "string" THEN <<>>
    ELSE trim(replaceWhitespaceRuns(value.str))

EmptyMap == [k \in {} |-> <<>>]

\* values is the request's `fields`: [type, entries], entries a function from
\* key to raw value.  The loop body runs once per own key; iterations write
\* different keys of result, so their order does not matter.
normalizeFieldValues(values) ==
    IF values.type # "object" THEN EmptyMap
    ELSE [key \in {k \in DOMAIN values.entries : TEMPLATE_FIELD_MAP_has(k)} |->
              sanitizeFieldValue(values.entries[key])]

\* ---------------------------------------------------------------- document
Selectors ==
    {TEMPLATE_FIELD_CONFIGS[i].selector : i \in DOMAIN TEMPLATE_FIELD_CONFIGS}
        \cup {"title"}

NoAttributes == [a \in {} |-> <<>>]
Node(text) == [textContent |-> text, attributes |-> NoAttributes]

\* A node reference: the position of the node among the matches of its selector.
NullNode == [found |-> FALSE, selector |-> "", at |-> 0]
NodeRef(selector, n) == [found |-> TRUE, selector |-> selector, at |-> n]

\* document.querySelector(selector): the first match or null.
querySelector(doc, selector) ==
    IF Len(doc[selector]) >= 1 THEN NodeRef(selector, 1) ELSE NullNode

getTemplateNode(doc, config) ==
    IF config.selector = "" THEN NullNode
    ELSE IF config.index.set
         THEN IF config.index.at + 1 <= Len(doc[config.selector])
              THEN NodeRef(config.selector, config.index.at + 1)
              ELSE NullNode
         ELSE querySelector(doc, config.selector)

readTemplateField(doc, config) ==
    LET node == getTemplateNode(doc, config) IN
    IF ~node.found THEN <<>>
    ELSE LET n == doc[node.selector][node.at] IN
         IF config.attr # ""
         THEN IF config.attr \in DOMAIN n.attributes
              THEN n.attributes[config.attr] ELSE <<>>
         ELSE n.textContent

\* node.textContent = value on the node a reference names.
setTextContent(doc, node, value) ==
    [doc EXCEPT ![node.selector][node.at].textContent = value]

\* The document after writeTemplateField(doc, config, value).
writeTemplateField(doc, config, value) ==
    LET node == getTemplateNode(doc, config) IN
    IF ~node.found THEN doc
    ELSE IF config.attr # ""
         THEN LET n == doc[node.selector][node.at]
                  attrs == [a \in DOMAIN n.attributes \cup {config.attr} |->
                               IF a = config.attr THEN value ELSE n.attributes[a]]
              IN [doc EXCEPT ![node.selector][node.at].attributes = attrs]
         ELSE setTextContent(doc, node, value)

capitalizeWord_KeepsRemainder(value) ==
    IF value = <<>> THEN value
    ELSE toUpperCase(<<Head(value)>>) \o Tail(value)

capitalizeWord(value) ==
    IF value = <<>> THEN value
    ELSE toUpperCase(<<Head(value)>>) \o toLowerCase(Tail(value))

\* The loop of applyFieldsToTemplate over Object.entries(values): the document
\* after writing every registry field of values.  Different fields name
\* different nodes, so the order of the entries does not matter.
RECURSIVE writeFields(_, _, _)
writeFields(doc, keys, values) ==
    IF keys = {} THEN doc
    ELSE LET fieldId == CHOOSE k \in keys : TRUE IN
         IF ~TEMPLATE_FIELD_MAP_has(fieldId)
         THEN writeFields(doc, keys \ {fieldId}, values)
         ELSE writeFields(
                  writeTemplateField(doc, TEMPLATE_FIELD_MAP_get(fieldId), values[fieldId]),
                  keys \ {fieldId}, values)

\* [first, last].filter(Boolean).map(capitalizeWord).join(" ").trim()
computedTitle(first, last) ==
    LET kept == SelectSeq(<<first, last>>, LAMBDA s : s # <<>>)
        words == [i \in 1..Len(kept) |-> capitalizeWord(kept[i])]
    IN trim(joinWithSpace(words))

deriveTitle_NoLengthCheck(doc) ==
    LET first == sanitizeFieldValue(JsString(
                     readTemplateField(doc, TEMPLATE_FIELD_MAP_get("personFirst"))))
        last == sanitizeFieldValue(JsString(
                     readTemplateField(doc, TEMPLATE_FIELD_MAP_get("personLast"))))
        titleNode == querySelector(doc, "title")
    IN IF titleNode.found
       THEN setTextContent(doc, titleNode, computedTitle(first, last))
       ELSE doc

\* The derived-title step on the document after the writes.
deriveTitle(doc) ==
    LET first == sanitizeFieldValue(JsString(
                     readTemplateField(doc, TEMPLATE_FIELD_MAP_get("personFirst"))))
        last == sanitizeFieldValue(JsString(
                     readTemplateField(doc, TEMPLATE_FIELD_MAP_get("personLast"))))
        title == computedTitle(first, last)
        titleNode == querySelector(doc, "title")
    IN IF Len(title) > 0 /\ titleNode.found
       THEN setTextContent(doc, titleNode, title)
       ELSE doc

applyFieldsToTemplate_AppliedOnlyIfWritten(templateHtml, values) ==
    LET written == writeFields(templateHtml, DOMAIN values, values)
        applied == [fieldId \in {k \in DOMAIN values :
                                    /\ TEMPLATE_FIELD_MAP_has(k)
                                    /\ getTemplateNode(templateHtml, TEMPLATE_FIELD_MAP_get(k)).found} |->
                        values[fieldId]]
    IN [html |-> [doctype |-> "<!DOCTYPE html>\n", documentElement |-> deriveTitle(written)],
        applied |-> applied]

applyFieldsToTemplate_TitleFromValues(templateHtml, values) ==
    LET written == writeFields(templateHtml, DOMAIN values, values)
        applied == [fieldId \in {k \in DOMAIN values : TEMPLATE_FIELD_MAP_has(k)} |->
                        values[fieldId]]
        first == IF "personFirst" \in DOMAIN values THEN values["personFirst"] ELSE <<>>
        last == IF "personLast" \in DOMAIN values THEN values["personLast"] ELSE <<>>
        title == computedTitle(sanitizeFieldValue(JsString(first)),
                               sanitizeFieldValue(JsString(last)))
        titleNode == querySelector(written, "title")
        titled == IF Len(title) > 0 /\ titleNode.found
                  THEN setTextContent(written, titleNode, title)
                  ELSE written
    IN [html |-> [doctype |-> "<!DOCTYPE html>\n", documentElement |-> titled],
        applied |-> applied]

\* templateHtml is modelled by the document parseHTML yields for it; the
\* serialized html by the doctype prefix and the document it serializes.
applyFieldsToTemplate(templateHtml, values) ==
    LET written == writeFields(templateHtml, DOMAIN values, values)
        applied == [fieldId \in {k \in DOMAIN values : TEMPLATE_FIELD_MAP_has(k)} |->
                        values[fieldId]]
    IN [html |-> [doctype |-> "<!DOCTYPE html>\n", documentElement |-> deriveTitle(written)],
        applied |-> applied]

\* ------------------------------------------------------------------- state
VARIABLES
    repoConfig,   \* owner, repo and pat of the configuration object
    requests,     \* per request: position in the handler, locals, calls, response
    issuedUUIDs,  \* the identifiers randomUUID has returned so far
    aPc,          \* SpecApply: position in normalize -> apply
    aTemplate,    \* SpecApply: the template document
    aFields,      \* SpecApply: the raw `fields` of the request
    aValues,      \* SpecApply: normalizeFieldValues(aFields)
    aResult,      \* SpecApply: applyFieldsToTemplate(aTemplate, aValues)
    sPc,          \* SpecSanitize: position in sanitize -> sanitize again
    sValue,       \* SpecSanitize: the raw value
    sOnce,        \* SpecSanitize: sanitizeFieldValue(sValue)
    sTwice        \* SpecSanitize: sanitizeFieldValue of sOnce

vars == <<repoConfig, requests, issuedUUIDs, aPc, aTemplate, aFields, aValues, aResult,
          sPc, sValue, sOnce, sTwice>>
handlerVars == <<repoConfig, requests, issuedUUIDs>>
applyVars == <<aPc, aTemplate, aFields, aValues, aResult>>
sanitizeVars == <<sPc, sValue, sOnce, sTwice>>

\* ------------------------------------------------------ templating pipeline
\* The card template with the given nodes for the two name fields and the
\* document title; every other registry selector matches as in the card.
CardTemplate(firstNodes, lastNodes, titleNodes) ==
    [sel \in Selectors |->
        CASE sel = ".card__person-first" -> firstNodes
          [] sel = ".card__person-last" -> lastNodes
          [] sel = "title" -> titleNodes
          [] sel = ".card__company-word" -> <<Node(<<"a">>), Node(<<"b">>)>>
          [] OTHER -> <<Node(<<"a">>)>>]

InputAlphabet == {"a", "B", " ", "\t"}
RECURSIVE StringsUpTo(_)
StringsUpTo(n) ==
    IF n = 0 THEN {<<>>}
    ELSE LET shorter == StringsUpTo(n - 1) IN
         shorter \cup {s \o <<c>> : s \in shorter, c \in InputAlphabet}

RawValues == {JsNumber} \cup {JsString(s) : s \in StringsUpTo(MaxLen)}
NameKeys == {"personFirst", "personLast"}
NoEntries == [k \in {} |-> JsUndefined]
JsObject(entries) == [type |-> "object", entries |-> entries]
NotAnObject(type) == [type |-> type, entries |-> NoEntries]

\* Raw `fields` of SpecApply: a value for any subset of the name fields,
\* with or without an entry whose key is not in the registry.
ApplyFieldInputs ==
    LET named == UNION {[S -> RawValues] : S \in SUBSET NameKeys}
        withUnknown(f) == [k \in DOMAIN f \cup {"nickname"} |->
                              IF k = "nickname" THEN JsString(<<"a">>) ELSE f[k]]
    IN {JsObject(f) : f \in named} \cup {JsObject(withUnknown(f)) : f \in named}
           \cup {NotAnObject("undefined")}

PersonNodeChoices == {<<>>, <<Node(<<>>)>>, <<Node(<<"a", "B">>)>>}
TitleNodeChoices == {<<>>, <<Node(<<"C", "a", "r", "d">>)>>}
ApplyTemplates ==
    {CardTemplate(f, l, t) : f \in PersonNodeChoices, l \in PersonNodeChoices,
                             t \in TitleNodeChoices}

NoResult == [html |-> [doctype |-> "", documentElement |-> <<>>], applied |-> EmptyMap]

\* ---------------------------------------------------------------- responses
NoJson == [branch |-> <<>>, branchUrl |-> <<>>, vercelImportUrl |-> <<>>,
           appliedFields |-> EmptyMap]
NoResponse == [status |-> 0, text |-> "", json |-> NoJson]
\* c.text(text, status)
TextResponse(text, status) == [status |-> status, text |-> text, json |-> NoJson]
\* c.json(value): status 200
JsonResponse(value) == [status |-> 200, text |-> "", json |-> value]

ConfigFailure == TextResponse("GitHub repository not configured.", 500)
InvalidJsonFailure == TextResponse("Invalid JSON body.", 400)
NoValidFieldsFailure == TextResponse("No valid fields provided.", 400)
TemplateLoadFailure == TextResponse("Unable to load template file.", 500)
\* An error the handler does not catch reaches the framework's default
\* error handler, which answers 500 "Internal Server Error".
UncaughtErrorResponse == TextResponse("Internal Server Error", 500)

PublishFailure_ExposesError(error) == TextResponse(error, 500)

\* The catch clause of the handler: the error is logged, the response is fixed.
PublishFailure(error) == TextResponse("Failed to publish preview.", 500)

\* ----------------------------------------------------------------- requests
Requests == 1..NumRequests
\* randomUUID() returns a version-4 UUID drawn from 122 random bits; it is
\* modelled as returning an identifier it has not returned before.  The
\* program only embeds identifiers in names and never inspects them, so its
\* behaviours are the same up to renaming them: the fresh identifier is
\* represented by the least one not yet returned.
UUIDs == 1..NumRequests
randomUUID ==
    {u \in UUIDs \ issuedUUIDs : \A v \in UUIDs \ issuedUUIDs : u <= v}

NoBranch == <<>>
branchNameOf_Fixed(uuid) == <<"card-", 0>>

\* `card-${randomUUID()}`
branchNameOf(uuid) == <<"card-", uuid>>
\* `https://github.com/${owner}/${repo}/tree/${branchName}`
branchUrlOf(branchName) ==
    <<"https://github.com/", repoConfig.owner, "/", repoConfig.repo, "/tree/", branchName>>
\* `https://vercel.com/new/clone?repository-url=${encodeURIComponent(branchUrl)}`
vercelImportUrlOf(branchName) ==
    <<"https://vercel.com/new/clone?repository-url=",
      <<"encodeURIComponent", branchUrlOf(branchName)>> >>

\* The template file on disk, as parseHTML reads it.
PreviewTemplate ==
    CardTemplate(<<Node(<<"a">>)>>, <<Node(<<"b">>)>>, <<Node(<<"C", "a", "r", "d">>)>>)
NoHtml == [doctype |-> "", documentElement |-> <<>>]

\* Request bodies: text that is not JSON, the JSON values null and 5, and
\* objects with a `fields` member and an optional commitMessage.
BodyOf(json, fields, commitMessage) ==
    [json |-> json, fields |-> fields, commitMessage |-> commitMessage]
NoBody == BodyOf("none", NotAnObject("undefined"), JsUndefined)
InvalidBodies ==
    { BodyOf("invalid", NotAnObject("undefined"), JsUndefined),
      BodyOf("null", NotAnObject("undefined"), JsUndefined),
      BodyOf("number", NotAnObject("undefined"), JsUndefined),
      BodyOf("object", JsObject(NoEntries), JsUndefined),
      BodyOf("object", JsObject([k \in {"nickname"} |-> JsString(<<"a">>)]), JsUndefined) }
ValidBodies ==
    { BodyOf("object",
             JsObject([k \in {"personFirst", "personLast", "nickname"} |->
                          CASE k = "personFirst" -> JsString(<<"a", "b">>)
                            [] k = "personLast" -> JsString(<<" ", "B", "A">>)
                            [] OTHER -> JsString(<<"a">>)]),
             JsString(<<" ", "a", " ">>)) }
Bodies == InvalidBodies \cup ValidBodies

\* body.fields and body.commitMessage of the parsed body (a property of a
\* number is undefined).
bodyFields(body) ==
    IF body.json = "object" THEN body.fields ELSE NotAnObject("undefined")
bodyCommitMessage(body) ==
    IF body.json = "object" THEN body.commitMessage ELSE JsUndefined

MaxCommitMessageLength == 250
DefaultCommitMessage == <<"chore: update card preview ", "toISOString">>
commitMessageOf_NoSlice(body) ==
    LET m == bodyCommitMessage(body) IN
    IF m.type = "string" /\ Len(trim(m.str)) > 0 THEN trim(m.str)
    ELSE DefaultCommitMessage

commitMessageOf(body) ==
    LET m == bodyCommitMessage(body) IN
    IF m.type = "string" /\ Len(trim(m.str)) > 0
    THEN LET t == trim(m.str) IN
         SubSeq(t, 1, IF Len(t) < MaxCommitMessageLength THEN Len(t)
                      ELSE MaxCommitMessageLength)
    ELSE DefaultCommitMessage

IdleRequest ==
    [pc |-> "idle", body |-> NoBody, normalizedFields |-> EmptyMap,
     readFile |-> "not called", html |-> NoHtml, applied |-> EmptyMap,
     commitMessage |-> <<>>, baseSha |-> "", branchName |-> NoBranch,
     readmeSha |-> "", calls |-> <<>>, error |-> "", response |-> NoResponse]

\* -------------------------------------------------------------- GitHub calls
NoPayload == [sha |-> "", message |-> <<>>, content |-> NoHtml]
Pending == [kind |-> "pending", status |-> 0, parses |-> FALSE, sha |-> ""]
\* fetch rejected, or the body of a non-success response could not be read
\* inside githubPatRequest: githubPatRequest throws.
Thrown == [kind |-> "throw", status |-> 0, parses |-> FALSE, sha |-> ""]
\* A response: its status, whether response.json() succeeds, and the sha
\* member of the parsed value ("" when absent).
Response(status, parses, sha) ==
    [kind |-> "response", status |-> status, parses |-> parses, sha |-> sha]
ok(result) == result.kind = "response" /\ result.status \in 200..299

\* What a GET can answer: `failures` are its non-success statuses, `sha` the
\* content hash or commit id a success carries when it carries one.
GetOutcomes(sha, failures) ==
    {Thrown} \cup {Response(st, TRUE, "") : st \in failures}
        \cup {Response(200, TRUE, sha), Response(200, TRUE, ""), Response(200, FALSE, "")}
\* What a POST, DELETE or PUT can answer.
WriteOutcomes(success, failures) ==
    {Thrown} \cup {Response(st, TRUE, "") : st \in failures \cup {success}}

CallOf(method, resource, branch, payload) ==
    [method |-> method, resource |-> resource, branch |-> branch,
     payload |-> payload, result |-> Pending]

\* ------------------------------------------------------------ handler steps
Respond(req, response) == [req EXCEPT !.pc = "done", !.response = response]
\* An error thrown inside the try block of the handler.
Fail(req, error) == Respond([req EXCEPT !.error = error], PublishFailure(error))

\* githubPatRequest up to its fetch: throws without a token, else the call is
\* on the wire and the request waits for it.
githubPatRequest(req, call, waitPc) ==
    IF repoConfig.pat = "" THEN Fail(req, "GitHub PAT is not configured.")
    ELSE [req EXCEPT !.calls = Append(@, call), !.pc = waitPc]

\* The awaited call returns `result`.
complete(req, result) == [req EXCEPT !.calls[Len(req.calls)].result = result]

configIncomplete_IgnoresPat == repoConfig.owner = "" \/ repoConfig.repo = ""

\* !repoConfig.owner || !repoConfig.repo || !repoConfig.pat
configIncomplete ==
    repoConfig.owner = "" \/ repoConfig.repo = "" \/ repoConfig.pat = ""

\* index.ts 462-470: the configuration check, then c.req.json() is awaited.
onRequest(req, body) ==
    IF configIncomplete THEN Respond([req EXCEPT !.body = body], ConfigFailure)
    ELSE [req EXCEPT !.body = body, !.pc = "readBody"]

\* index.ts 468-482: the parsed body, normalizeFieldValues, and the start of
\* readFile.  body.fields of null throws a TypeError outside any try block.
onBody(req) ==
    IF req.body.json = "invalid" THEN Respond(req, InvalidJsonFailure)
    ELSE IF req.body.json = "null" THEN Respond(req, UncaughtErrorResponse)
    ELSE LET normalizedFields == normalizeFieldValues(bodyFields(req.body)) IN
         IF DOMAIN normalizedFields = {}
         THEN Respond(req, NoValidFieldsFailure)
         ELSE [req EXCEPT !.normalizedFields = normalizedFields,
                          !.readFile = "pending", !.pc = "readTemplate"]

\* index.ts 297-308: pushPreviewBranch up to the base-ref GET.
pushPreviewBranch(req) ==
    IF configIncomplete
    THEN Fail(req, "GitHub repository configuration is incomplete.")
    ELSE githubPatRequest(req,
             CallOf("GET", "git/ref/heads", repoConfig.baseBranch, NoPayload),
             "awaitBaseRef")

\* index.ts 480-501: readFile returned or threw; applyFieldsToTemplate, the
\* commit message, and the call of pushPreviewBranch.
onTemplate_IgnoresReadError(req, readable) ==
    LET out == applyFieldsToTemplate(PreviewTemplate, req.normalizedFields) IN
    pushPreviewBranch([req EXCEPT !.readFile = IF readable THEN "returned" ELSE "threw",
                                  !.html = out.html, !.applied = out.applied,
                                  !.commitMessage = commitMessageOf(req.body)])

onTemplate(req, readable) ==
    IF ~readable THEN Respond([req EXCEPT !.readFile = "threw"], TemplateLoadFailure)
    ELSE LET out == applyFieldsToTemplate(PreviewTemplate, req.normalizedFields) IN
         pushPreviewBranch([req EXCEPT !.readFile = "returned",
                                       !.html = out.html, !.applied = out.applied,
                                       !.commitMessage = commitMessageOf(req.body)])

\* index.ts 310-335: the base-ref response, the fresh branch name, the POST.
onBaseRef(req, result, uuid) ==
    IF result.kind = "throw" THEN Fail(req, "fetch failed")
    ELSE IF ~ok(result) THEN Fail(req, "Unable to load base branch reference.")
    ELSE IF ~result.parses THEN Fail(req, "Unexpected token in JSON")
    ELSE IF result.sha = "" THEN Fail(req, "Base branch reference missing SHA.")
    ELSE LET branchName == branchNameOf(uuid) IN
         githubPatRequest(
             [req EXCEPT !.baseSha = result.sha, !.branchName = branchName],
             CallOf("POST", "git/refs", <<"refs/heads/", branchName>>,
                    [NoPayload EXCEPT !.sha = result.sha]),
             "awaitCreateRef")

\* index.ts 189-196: removeReadmeFromBranch up to the README GET.
removeReadmeFromBranch(req) ==
    githubPatRequest(req,
        CallOf("GET", "contents/README.md", req.branchName, NoPayload),
        "awaitReadmeGet")

onCreateRef_IgnoresStatus(req, result) ==
    IF result.kind = "throw" THEN Fail(req, "fetch failed")
    ELSE removeReadmeFromBranch(req)

\* index.ts 337-346: the create-ref response.
onCreateRef(req, result) ==
    IF result.kind = "throw" THEN Fail(req, "fetch failed")
    ELSE IF ~ok(result) THEN Fail(req, "Unable to create preview branch.")
    ELSE removeReadmeFromBranch(req)

putContent_LastIssuedBranch(req) ==
    githubPatRequest(req,
        CallOf("PUT", "contents/index.html",
               branchNameOf(CHOOSE u \in issuedUUIDs : \A v \in issuedUUIDs : v <= u),
               [sha |-> "", message |-> req.commitMessage, content |-> req.html]),
        "awaitContentPut")

\* index.ts 348-370: the content PUT.
putContent(req) ==
    githubPatRequest(req,
        CallOf("PUT", "contents/index.html", req.branchName,
               [sha |-> "", message |-> req.commitMessage, content |-> req.html]),
        "awaitContentPut")

onReadmeGet_NotFoundThrows(req, result) ==
    IF result.kind = "throw" \/ result.status = 404 THEN Fail(req, "fetch failed")
    ELSE IF ~ok(result) THEN putContent(req)
    ELSE IF ~result.parses THEN Fail(req, "Unexpected token in JSON")
    ELSE IF result.sha = "" THEN putContent(req)
    ELSE githubPatRequest(
             [req EXCEPT !.readmeSha = result.sha],
             CallOf("DELETE", "contents/README.md", req.branchName,
                    [NoPayload EXCEPT !.sha = result.sha,
                                      !.message = <<"chore: remove README for ", req.branchName>>]),
             "awaitReadmeDelete")

onReadmeGet_DeletesWithoutSha(req, result) ==
    IF result.kind = "throw" THEN Fail(req, "fetch failed")
    ELSE IF result.status = 404 THEN putContent(req)
    ELSE IF ~ok(result) THEN putContent(req)
    ELSE IF ~result.parses THEN Fail(req, "Unexpected token in JSON")
    ELSE githubPatRequest(
             [req EXCEPT !.readmeSha = result.sha],
             CallOf("DELETE", "contents/README.md", req.branchName,
                    [NoPayload EXCEPT !.sha = result.sha,
                                      !.message = <<"chore: remove README for ", req.branchName>>]),
             "awaitReadmeDelete")

\* index.ts 198-239: the README metadata response.  removeReadmeFromBranch
\* has no try block: what it throws leaves pushPreviewBranch too.
onReadmeGet(req, result) ==
    IF result.kind = "throw" THEN Fail(req, "fetch failed")
    ELSE IF result.status = 404 THEN putContent(req)
    ELSE IF ~ok(result) THEN putContent(req)
    ELSE IF ~result.parses THEN Fail(req, "Unexpected token in JSON")
    ELSE IF result.sha = "" THEN putContent(req)
    ELSE githubPatRequest(
             [req EXCEPT !.readmeSha = result.sha],
             CallOf("DELETE", "contents/README.md", req.branchName,
                    [NoPayload EXCEPT !.sha = result.sha,
                                      !.message = <<"chore: remove README for ", req.branchName>>]),
             "awaitReadmeDelete")

onReadmeDelete_StallsOnFailure(req, result) ==
    IF result.kind = "throw" THEN Fail(req, "fetch failed")
    ELSE IF ~ok(result) THEN [req EXCEPT !.pc = "stalled"]
    ELSE putContent(req)

\* index.ts 241-248 and 346: the DELETE response is only logged.
onReadmeDelete(req, result) ==
    IF result.kind = "throw" THEN Fail(req, "fetch failed")
    ELSE putContent(req)

onContentPut_RetriesOnce(req, result) ==
    IF result.kind = "throw" THEN Fail(req, "fetch failed")
    ELSE IF ~ok(result)
    THEN IF req.calls[Len(req.calls) - 1].resource = "contents/index.html"
         THEN Fail(req, "Unable to update template file.")
         ELSE putContent(req)
    ELSE Respond(req, JsonResponse(
             [branch |-> req.branchName,
              branchUrl |-> branchUrlOf(req.branchName),
              vercelImportUrl |-> vercelImportUrlOf(req.branchName),
              appliedFields |-> req.applied]))

onContentPut_IgnoresStatus(req, result) ==
    IF result.kind = "throw" THEN Fail(req, "fetch failed")
    ELSE Respond(req, JsonResponse(
             [branch |-> req.branchName,
              branchUrl |-> branchUrlOf(req.branchName),
              vercelImportUrl |-> vercelImportUrlOf(req.branchName),
              appliedFields |-> req.applied]))

onContentPut_RollsBack(req, result) ==
    IF req.calls[Len(req.calls)].method = "DELETE"
    THEN Fail(req, "Unable to update template file.")
    ELSE IF result.kind = "throw" THEN Fail(req, "fetch failed")
    ELSE IF ~ok(result)
    THEN githubPatRequest(req,
             CallOf("DELETE", "git/refs", <<"refs/heads/", req.branchName>>, NoPayload),
             "awaitContentPut")
    ELSE Respond(req, JsonResponse(
             [branch |-> req.branchName,
              branchUrl |-> branchUrlOf(req.branchName),
              vercelImportUrl |-> vercelImportUrlOf(req.branchName),
              appliedFields |-> req.applied]))

\* index.ts 372-388 and 503-508: the PUT response and the handler's answer.
onContentPut(req, result) ==
    IF result.kind = "throw" THEN Fail(req, "fetch failed")
    ELSE IF ~ok(result) THEN Fail(req, "Unable to update template file.")
    ELSE Respond(req, JsonResponse(
             [branch |-> req.branchName,
              branchUrl |-> branchUrlOf(req.branchName),
              vercelImportUrl |-> vercelImportUrlOf(req.branchName),
              appliedFields |-> req.applied]))

\* ------------------------------------------------------------------ actions
Init ==
    /\ repoConfig \in [owner : {"", "jgoon"}, repo : {"", "card"}, pat : {"", "token"},
                       baseBranch : {<<"main">>}]
    /\ requests = [r \in Requests |-> IdleRequest]
    /\ issuedUUIDs = {}
    /\ aPc = "unused"
    /\ aTemplate = <<>>
    /\ aFields = NotAnObject("undefined")
    /\ aValues = EmptyMap
    /\ aResult = NoResult
    /\ sPc = "unused"
    /\ sValue = JsUndefined
    /\ sOnce = <<>>
    /\ sTwice = <<>>

ReceiveRequest(r) ==
    /\ requests[r].pc = "idle"
    /\ \E body \in Bodies :
           requests' = [requests EXCEPT ![r] = onRequest(@, body)]
    /\ UNCHANGED <<repoConfig, issuedUUIDs, applyVars, sanitizeVars>>

BodyParsed(r) ==
    /\ requests[r].pc = "readBody"
    /\ requests' = [requests EXCEPT ![r] = onBody(@)]
    /\ UNCHANGED <<repoConfig, issuedUUIDs, applyVars, sanitizeVars>>

TemplateRead(r) ==
    /\ requests[r].pc = "readTemplate"
    /\ \E readable \in BOOLEAN :
           requests' = [requests EXCEPT ![r] = onTemplate(@, readable)]
    /\ UNCHANGED <<repoConfig, issuedUUIDs, applyVars, sanitizeVars>>

BaseRefDone(r) ==
    /\ requests[r].pc = "awaitBaseRef"
    /\ \E result \in GetOutcomes("basesha", {404}), uuid \in randomUUID :
           LET next == onBaseRef(complete(requests[r], result), result, uuid) IN
           /\ requests' = [requests EXCEPT ![r] = next]
           /\ issuedUUIDs' = IF next.branchName = NoBranch THEN issuedUUIDs
                             ELSE issuedUUIDs \cup {uuid}
    /\ UNCHANGED <<repoConfig, applyVars, sanitizeVars>>

CreateRefDone(r) ==
    /\ requests[r].pc = "awaitCreateRef"
    /\ \E result \in WriteOutcomes(201, {422}) :
           requests' = [requests EXCEPT ![r] = onCreateRef(complete(@, result), result)]
    /\ UNCHANGED <<repoConfig, issuedUUIDs, applyVars, sanitizeVars>>

ReadmeGetDone(r) ==
    /\ requests[r].pc = "awaitReadmeGet"
    /\ \E result \in GetOutcomes("readmesha", {403, 404}) :
           requests' = [requests EXCEPT ![r] = onReadmeGet(complete(@, result), result)]
    /\ UNCHANGED <<repoConfig, issuedUUIDs, applyVars, sanitizeVars>>

ReadmeDeleteDone(r) ==
    /\ requests[r].pc = "awaitReadmeDelete"
    /\ \E result \in WriteOutcomes(200, {409}) :
           requests' = [requests EXCEPT ![r] = onReadmeDelete(complete(@, result), result)]
    /\ UNCHANGED <<repoConfig, issuedUUIDs, applyVars, sanitizeVars>>

ContentPutDone(r) ==
    /\ requests[r].pc = "awaitContentPut"
    /\ \E result \in WriteOutcomes(201, {403}) :
           requests' = [requests EXCEPT ![r] = onContentPut(complete(@, result), result)]
    /\ UNCHANGED <<repoConfig, issuedUUIDs, applyVars, sanitizeVars>>

Next ==
    \E r \in Requests :
        \/ ReceiveRequest(r)
        \/ BodyParsed(r)
        \/ TemplateRead(r)
        \/ BaseRefDone(r)
        \/ CreateRefDone(r)
        \/ ReadmeGetDone(r)
        \/ ReadmeDeleteDone(r)
        \/ ContentPutDone(r)

Spec == Init /\ [][Next]_vars

\* Every await of the handler resumes once what it waits for has settled:
\* the body and the template are local reads, and each upstream call is
\* taken to complete.
Resume(r) ==
    \/ BodyParsed(r)
    \/ TemplateRead(r)
    \/ BaseRefDone(r)
    \/ CreateRefDone(r)
    \/ ReadmeGetDone(r)
    \/ ReadmeDeleteDone(r)
    \/ ContentPutDone(r)

FairSpec == Spec /\ \A r \in Requests : WF_vars(Resume(r))

ApplyInit ==
    /\ aPc = "start"
    /\ aTemplate \in ApplyTemplates
    /\ aFields \in ApplyFieldInputs
    /\ aValues = EmptyMap
    /\ aResult = NoResult
    /\ repoConfig = [owner |-> "", repo |-> "", pat |-> ""]
    /\ requests = [r \in 1..NumRequests |-> IdleRequest]
    /\ issuedUUIDs = {}
    /\ sPc = "unused"
    /\ sValue = JsUndefined
    /\ sOnce = <<>>
    /\ sTwice = <<>>

\* index.ts 475: normalizedFields = normalizeFieldValues(body.fields)
Normalize ==
    /\ aPc = "start"
    /\ aValues' = normalizeFieldValues(aFields)
    /\ aPc' = "normalized"
    /\ UNCHANGED <<aTemplate, aFields, aResult, handlerVars, sanitizeVars>>

\* index.ts 488: applyFieldsToTemplate(templateHtml, normalizedFields)
Apply ==
    /\ aPc = "normalized"
    /\ aResult' = applyFieldsToTemplate(aTemplate, aValues)
    /\ aPc' = "applied"
    /\ UNCHANGED <<aTemplate, aFields, aValues, handlerVars, sanitizeVars>>

ApplyNext == Normalize \/ Apply

SpecApply == ApplyInit /\ [][ApplyNext]_vars

\* ------------------------------------------- the handler, one request alone
\* Commit messages a body can carry: none, a non-string, and strings of
\* lengths around zero and around the cap, with and without blanks at the
\* ends.
Blanks(n) == [i \in 1..n |-> " "]
Letters(n) == [i \in 1..n |-> IF i % 2 = 1 THEN "a" ELSE "B"]
CommitLengths ==
    (0..MaxExcess)
        \cup ((MaxCommitMessageLength - MaxExcess)..(MaxCommitMessageLength + MaxExcess))
CommitMessages ==
    {JsUndefined, JsNumber}
        \cup {JsString(Blanks(l) \o Letters(n) \o Blanks(t)) :
                 l \in 0..1, n \in CommitLengths, t \in 0..1}
CommitBodies ==
    {BodyOf("object", JsObject([k \in {"personFirst"} |-> JsString(<<"a">>)]), m) :
        m \in CommitMessages}

CommitInit ==
    /\ repoConfig = [owner |-> "jgoon", repo |-> "card", pat |-> "token",
                     baseBranch |-> <<"main">>]
    /\ requests = [r \in Requests |-> IdleRequest]
    /\ issuedUUIDs = {}
    /\ aPc = "unused"
    /\ aTemplate = <<>>
    /\ aFields = NotAnObject("undefined")
    /\ aValues = EmptyMap
    /\ aResult = NoResult
    /\ sPc = "unused"
    /\ sValue = JsUndefined
    /\ sOnce = <<>>
    /\ sTwice = <<>>

ReceiveCommitRequest(r) ==
    /\ requests[r].pc = "idle"
    /\ \E body \in CommitBodies :
           requests' = [requests EXCEPT ![r] = onRequest(@, body)]
    /\ UNCHANGED <<repoConfig, issuedUUIDs, applyVars, sanitizeVars>>

CommitNext ==
    \/ ReceiveCommitRequest(1)
    \/ BodyParsed(1)
    \/ TemplateRead(1)
    \/ BaseRefDone(1)
    \/ CreateRefDone(1)
    \/ ReadmeGetDone(1)
    \/ ReadmeDeleteDone(1)
    \/ ContentPutDone(1)

SpecCommit == CommitInit /\ [][CommitNext]_vars

\* --------------------------------------------------- sanitizing, on its own
\* Any value a JSON body can carry for a field: a string, or something that
\* is not a string.
SanitizeInputs ==
    {JsNumber, JsUndefined} \cup {JsString(s) : s \in StringsUpTo(MaxSanitizeLen)}

SanitizeInit ==
    /\ sPc = "start"
    /\ sValue \in SanitizeInputs
    /\ sOnce = <<>>
    /\ sTwice = <<>>
    /\ repoConfig = [owner |-> "", repo |-> "", pat |-> ""]
    /\ requests = [r \in 1..NumRequests |-> IdleRequest]
    /\ issuedUUIDs = {}
    /\ aPc = "unused"
    /\ aTemplate = <<>>
    /\ aFields = NotAnObject("undefined")
    /\ aValues = EmptyMap
    /\ aResult = NoResult

\* index.ts 87: sanitizeFieldValue(rawValue)
SanitizeOnce ==
    /\ sPc = "start"
    /\ sOnce' = sanitizeFieldValue(sValue)
    /\ sPc' = "once"
    /\ UNCHANGED <<sValue, sTwice, handlerVars, applyVars>>

\* index.ts 116: the value written to a node is sanitized again when read.
SanitizeAgain ==
    /\ sPc = "once"
    /\ sTwice' = sanitizeFieldValue(JsString(sOnce))
    /\ sPc' = "twice"
    /\ UNCHANGED <<sValue, sOnce, handlerVars, applyVars>>

SanitizeNext == SanitizeOnce \/ SanitizeAgain

SpecSanitize == SanitizeInit /\ [][SanitizeNext]_vars

\* ------------------------------------------------------------ claim helpers
Done(r) == requests[r].pc = "done"
Received(r) == requests[r].pc # "idle"
Issued(r, method, resource) ==
    \E i \in 1..Len(requests[r].calls) :
        LET call == requests[r].calls[i] IN
        call.resource = resource /\ call.method = method
\* Some call of the kind has been answered and the answer satisfies P.
Answered(r, method, resource, P(_)) ==
    \E i \in 1..Len(requests[r].calls) :
        LET call == requests[r].calls[i] IN
        /\ call.resource = resource /\ call.method = method
        /\ call.result.kind # "pending"
        /\ P(call.result)
Succeeded(result) == result.kind = "response" /\ result.status \in 200..299
NotSucceeded(result) == ~Succeeded(result)
NotFound(result) == result.kind = "response" /\ result.status = 404
BaseRefOk(r) ==
    Answered(r, "GET", "git/ref/heads", LAMBDA res : Succeeded(res) /\ res.sha # "")
BaseRefFailed(r) ==
    Answered(r, "GET", "git/ref/heads", LAMBDA res : NotSucceeded(res) \/ res.sha = "")
CreateRefOk(r) == Answered(r, "POST", "git/refs", Succeeded)
CreateRefFailed(r) == Answered(r, "POST", "git/refs", NotSucceeded)
ContentPutOk(r) == Answered(r, "PUT", "contents/index.html", Succeeded)
ContentPutFailed(r) == Answered(r, "PUT", "contents/index.html", NotSucceeded)
IsSuccess(response) == response.status \in 200..299
IsFailure(response) == response.status \in 400..599
ReadmeCallIssued(r) ==
    Issued(r, "GET", "contents/README.md") \/ Issued(r, "DELETE", "contents/README.md")

\* ------------------------------------------------------------------ claims

\* C1: when the base-ref lookup and the branch creation succeeded and the
\* README lookup answered not-found, no README DELETE is issued, the content
\* PUT is issued, and a successful PUT ends the request with a success response.
C1_MissingReadmeStillPublishes ==
    \A r \in Requests :
        (BaseRefOk(r) /\ CreateRefOk(r) /\ Answered(r, "GET", "contents/README.md", NotFound))
        => /\ ~Issued(r, "DELETE", "contents/README.md")
           /\ Issued(r, "PUT", "contents/index.html")
           /\ (ContentPutOk(r) => Done(r) /\ IsSuccess(requests[r].response))

C1_Witness ==
    \E r \in Requests :
        /\ Answered(r, "GET", "contents/README.md", NotFound)
        /\ ContentPutOk(r)
        /\ IsSuccess(requests[r].response)
        /\ requests[r].response.json.branch = requests[r].branchName

\* C2: after the branch was created, no failure of the README lookup or
\* removal aborts the publish: the content PUT is always issued and the
\* response is a failure only if that PUT failed.
C2_ReadmeFailureNeverAborts ==
    \A r \in Requests :
        (Done(r) /\ CreateRefOk(r))
        => /\ Issued(r, "PUT", "contents/index.html")
           /\ (IsFailure(requests[r].response) => ContentPutFailed(r))

\* C3: a failed base-ref GET (or one without a commit id) is the request's
\* only call; after a failed create-ref POST no README call and no PUT is
\* issued; each of these, and a failed PUT, ends in a failure response.
C3_FatalFailureStopsSequence ==
    \A r \in Requests :
        /\ BaseRefFailed(r)
           => /\ Len(requests[r].calls) = 1
              /\ Done(r) /\ IsFailure(requests[r].response)
        /\ CreateRefFailed(r)
           => /\ ~ReadmeCallIssued(r)
              /\ ~Issued(r, "PUT", "contents/index.html")
              /\ Done(r) /\ IsFailure(requests[r].response)
        /\ (Done(r) /\ IsFailure(requests[r].response)) \/ ~ContentPutFailed(r)

C3_Witness ==
    \E r1, r2 \in Requests :
        /\ BaseRefFailed(r1) /\ Done(r1)
        /\ BaseRefOk(r2) /\ CreateRefFailed(r2) /\ Done(r2)

\* C4: with the owner, the repository name or the token not configured,
\* every received request, whatever its body, has ended with the
\* configuration failure, has issued no call and has not read the template.
C4_UnconfiguredNeverCalls ==
    (repoConfig.owner = "" \/ repoConfig.repo = "" \/ repoConfig.pat = "")
    => \A r \in Requests :
           /\ requests[r].calls = <<>>
           /\ requests[r].readFile = "not called"
           /\ Received(r)
              => /\ Done(r)
                 /\ requests[r].response.status = 500
                 /\ requests[r].response.text = "GitHub repository not configured."

C4_Witness ==
    /\ repoConfig.owner # "" /\ repoConfig.repo # "" /\ repoConfig.pat = ""
    /\ \E r \in Requests :
           /\ Done(r)
           /\ requests[r].body \in ValidBodies
           /\ requests[r].response.status = 500

\* The body is not valid structured data, or its fields name no registry id.
RejectableBody(body) ==
    \/ body.json \in {"invalid", "null", "number"}
    \/ body.json = "object"
       /\ (body.fields.type # "object"
           \/ DOMAIN body.fields.entries \cap FieldIds = {})
ConfigComplete ==
    repoConfig.owner # "" /\ repoConfig.repo # "" /\ repoConfig.pat # ""

\* C5: with the configuration complete, a request whose body is not valid
\* structured data or names no registry field ends with status 400, and it
\* reads no template and issues no call.
C5_InvalidBodyIsValidationFailure ==
    \A r \in Requests :
        (ConfigComplete /\ Done(r) /\ RejectableBody(requests[r].body))
        => /\ requests[r].response.status = 400
           /\ requests[r].readFile = "not called"
           /\ requests[r].calls = <<>>

\* C6: the branch names generated by different requests are different.
C6_BranchNamesDistinct ==
    \A r1, r2 \in Requests :
        (r1 # r2 /\ requests[r1].branchName # NoBranch /\ requests[r2].branchName # NoBranch)
        => requests[r1].branchName # requests[r2].branchName

C6_Witness ==
    \E r1, r2 \in Requests :
        /\ r1 # r2
        /\ CreateRefOk(r1) /\ CreateRefOk(r2)
        /\ ~Done(r1) /\ ~Done(r2)

\* The request was rejected by the validation of lines 468-478.
ValidationRejected(r) ==
    /\ ConfigComplete /\ Done(r)
    /\ requests[r].body.json # "null"
    /\ RejectableBody(requests[r].body)
FatallyFailed(r) ==
    Done(r) /\ (BaseRefFailed(r) \/ CreateRefFailed(r) \/ ContentPutFailed(r))

\* C7: the response to a fatal upstream failure is the same whichever step
\* failed and whatever GitHub answered, and its status is not the status of
\* a validation failure.
C7_FatalFailureIsGeneric ==
    \A r1 \in Requests :
        FatallyFailed(r1)
        => \A r2 \in Requests :
               /\ requests[r1].response = requests[r2].response \/ ~FatallyFailed(r2)
               /\ requests[r1].response.status # requests[r2].response.status
                  \/ ~ValidationRejected(r2)

C7_Witness ==
    \E r1, r2 \in Requests :
        /\ Done(r1) /\ CreateRefFailed(r1)
        /\ Done(r2) /\ ContentPutFailed(r2)
        /\ requests[r1].error # requests[r2].error

\* C8: when the template cannot be read the request ends with a server-side
\* failure response and issues no GitHub call.
C8_TemplateLoadFailureNoCalls ==
    \A r \in Requests :
        requests[r].readFile = "threw"
        => /\ Done(r)
           /\ requests[r].response.status \in 500..599
           /\ requests[r].calls = <<>>

C8_Witness ==
    \E r \in Requests :
        /\ requests[r].readFile = "threw"
        /\ requests[r].response.text = "Unable to load template file."

\* The text of the first node a selector matches.
TextOf(doc, selector) == doc[selector][1].textContent
HasTitleAndNameNodes(doc) ==
    /\ Len(doc["title"]) >= 1
    /\ Len(doc[".card__person-first"]) >= 1
    /\ Len(doc[".card__person-last"]) >= 1
Rendered == aResult.html.documentElement
\* A name field of the rendered document, read back and sanitized again.
NameAfter(selector) ==
    trim(replaceWhitespaceRuns(TextOf(Rendered, selector)))
\* First character upper-cased, remainder lower-cased.
Capitalize(word) ==
    [i \in 1..Len(word) |-> IF i = 1 THEN UpperChar(word[i]) ELSE LowerChar(word[i])]

C10_TitleIsCapitalizedNames ==
    (aPc = "applied" /\ HasTitleAndNameNodes(aTemplate)
        /\ NameKeys \subseteq DOMAIN aValues
        /\ aValues["personFirst"] # <<>> /\ aValues["personLast"] # <<>>)
    => TextOf(Rendered, "title")
           = Capitalize(aValues["personFirst"]) \o <<" ">> \o Capitalize(aValues["personLast"])

C10_Witness ==
    /\ aPc = "applied" /\ HasTitleAndNameNodes(aTemplate)
    /\ aFields.type = "object"
    /\ NameKeys \subseteq DOMAIN aFields.entries
    /\ aFields.entries["personFirst"] = JsString(<<"a", "B">>)
    /\ aFields.entries["personLast"] = JsString(<<"B", " ">>)
    /\ TextOf(Rendered, "title") = <<"A", "b", " ", "B">>

\* C11: the applied map has exactly the keys of the raw mapping that are
\* registry ids, each with the sanitized raw value (empty for a raw value
\* that is not a string), whether or not the template has the field's node.
C11_AppliedIsSanitizedKnownFields ==
    (aPc = "applied" /\ aFields.type = "object")
    => /\ DOMAIN aResult.applied = DOMAIN aFields.entries \cap FieldIds
       /\ \A k \in DOMAIN aResult.applied :
              /\ aResult.applied[k] = sanitizeFieldValue(aFields.entries[k])
              /\ aFields.entries[k].type # "string" => aResult.applied[k] = <<>>

C11_Witness ==
    /\ aPc = "applied" /\ aFields.type = "object"
    /\ DOMAIN aFields.entries = {"personFirst", "personLast", "nickname"}
    /\ aFields.entries["personFirst"] = JsNumber
    /\ aFields.entries["personLast"] = JsString(<<"\t", "a">>)
    /\ aTemplate[".card__person-first"] = <<>>
    /\ aTemplate[".card__person-last"] = <<>>
    /\ aResult.applied = [k \in NameKeys |-> IF k = "personFirst" THEN <<>> ELSE <<"a">>]

\* What the document holds for a name field after the write step: nothing
\* without a node, else the supplied value, else the template's text.
NameOperand(fieldId, selector) ==
    IF Len(aTemplate[selector]) = 0 THEN <<>>
    ELSE IF fieldId \in DOMAIN aValues THEN aValues[fieldId]
    ELSE trim(replaceWhitespaceRuns(TextOf(aTemplate, selector)))
ExpectedTitle ==
    LET first == NameOperand("personFirst", ".card__person-first")
        last == NameOperand("personLast", ".card__person-last")
    IN IF first = <<>> /\ last = <<>> THEN TextOf(aTemplate, "title")
       ELSE IF last = <<>> THEN Capitalize(first)
       ELSE IF first = <<>> THEN Capitalize(last)
       ELSE Capitalize(first) \o <<" ">> \o Capitalize(last)

\* C16: the title is derived from what the two name nodes hold after the
\* write step: a field the request does not supply contributes the
\* template's text, and a supplied field without a node contributes nothing.
C16_TitleFromDocumentReadBack ==
    (aPc = "applied" /\ Len(aTemplate["title"]) >= 1)
    => TextOf(Rendered, "title") = ExpectedTitle

C16_Witness ==
    /\ aPc = "applied" /\ Len(aTemplate["title"]) >= 1
    /\ DOMAIN aValues = NameKeys
    /\ aValues["personFirst"] = <<"a">>
    /\ aValues["personLast"] = <<"B">>
    /\ aTemplate[".card__person-first"] = <<>>
    /\ TextOf(Rendered, "title") = <<"B">>

C16_WitnessTemplateText ==
    /\ aPc = "applied" /\ Len(aTemplate["title"]) >= 1
    /\ DOMAIN aValues = {"personFirst"}
    /\ aValues["personFirst"] = <<"a">>
    /\ TextOf(Rendered, "title") = <<"A", " ", "A", "b">>

\* The maximal runs of non-whitespace characters of s, in order.
RECURSIVE WordsOf(_)
WordsOf(s) ==
    IF s = <<>> THEN <<>>
    ELSE IF s[1] \in Whitespace THEN WordsOf(Tail(s))
    ELSE LET rest == WordsOf(Tail(s)) IN
         IF Len(s) = 1 \/ s[2] \in Whitespace THEN <<(<<s[1]>>)>> \o rest
         ELSE <<(<<s[1]>> \o rest[1])>> \o Tail(rest)
RECURSIVE SpaceSeparated(_)
SpaceSeparated(words) ==
    IF words = <<>> THEN <<>>
    ELSE IF Len(words) = 1 THEN words[1]
    ELSE words[1] \o <<" ">> \o SpaceSeparated(Tail(words))
Tidy(s) ==
    /\ s # <<>> => s[1] \notin Whitespace /\ s[Len(s)] \notin Whitespace
    /\ \A i \in 1..Len(s) : s[i] \in Whitespace => s[i] = " "
    /\ \A i \in 1..(Len(s) - 1) : ~(s[i] \in Whitespace /\ s[i + 1] \in Whitespace)

\* C12: for a string, sanitizeFieldValue returns its words joined by single
\* spaces (no leading or trailing whitespace, every whitespace run replaced
\* by one space); sanitizing the result again changes nothing; for a value
\* that is not a string it returns the empty string.
C12_SanitizeTidyAndIdempotent ==
    /\ (sPc \in {"once", "twice"} /\ sValue.type = "string")
       => sOnce = SpaceSeparated(WordsOf(sValue.str)) /\ Tidy(sOnce)
    /\ (sPc \in {"once", "twice"} /\ sValue.type # "string") => sOnce = <<>>
    /\ sPc = "twice" => sTwice = sOnce

C12_Witness ==
    /\ sPc = "twice"
    /\ sValue = JsString(<<"a", " ", "\t", "B">>)
    /\ sTwice = <<"a", " ", "B">>

\* s without the whitespace at its two ends.
Strip(s) ==
    LET solid == {i \in 1..Len(s) : s[i] \notin Whitespace} IN
    IF solid = {} THEN <<>>
    ELSE SubSeq(s, CHOOSE i \in solid : \A j \in solid : i <= j,
                   CHOOSE i \in solid : \A j \in solid : j <= i)
Supplied(m) == m.type = "string" /\ Strip(m.str) # <<>>
ExpectedCommitMessage(m) ==
    IF Supplied(m)
    THEN LET t == Strip(m.str) IN
         [i \in 1..(IF Len(t) <= MaxCommitMessageLength THEN Len(t)
                    ELSE MaxCommitMessageLength) |-> t[i]]
    ELSE DefaultCommitMessage
IsContentPut(call) == call.method = "PUT" /\ call.resource = "contents/index.html"

\* C13: the message of the content commit is the supplied commitMessage
\* trimmed and cut to its first 250 characters when that is a string which
\* is not blank, and the generated default otherwise; it is never empty, and
\* a supplied one is never longer than 250 characters.
C13_CommitMessageTrimmedAndCapped ==
    \A r \in Requests : \A i \in 1..Len(requests[r].calls) :
        IsContentPut(requests[r].calls[i])
        => LET message == requests[r].calls[i].payload.message
               m == requests[r].body.commitMessage
           IN /\ message = ExpectedCommitMessage(m)
              /\ Len(message) > 0
              /\ Supplied(m) => Len(message) <= MaxCommitMessageLength
              /\ ~Supplied(m) => message = DefaultCommitMessage

C13_Witness ==
    \E r \in Requests : \E i \in 1..Len(requests[r].calls) :
        /\ IsContentPut(requests[r].calls[i])
        /\ requests[r].body.commitMessage.type = "string"
        /\ Len(Strip(requests[r].body.commitMessage.str)) > MaxCommitMessageLength
        /\ requests[r].body.commitMessage.str[1] = " "
        /\ Len(requests[r].calls[i].payload.message) = MaxCommitMessageLength
        /\ requests[r].calls[i].payload.message[1] = "a"

C13_WitnessDefault ==
    \E r \in Requests : \E i \in 1..Len(requests[r].calls) :
        /\ IsContentPut(requests[r].calls[i])
        /\ requests[r].body.commitMessage = JsString(<<" ">>)
        /\ requests[r].calls[i].payload.message = DefaultCommitMessage

\* The place of a call in the order of pushPreviewBranch.
Rank(call) ==
    CASE call.method = "GET" /\ call.resource = "git/ref/heads" -> 1
      [] call.method = "POST" /\ call.resource = "git/refs" -> 2
      [] call.method = "GET" /\ call.resource = "contents/README.md" -> 3
      [] call.method = "DELETE" /\ call.resource = "contents/README.md" -> 4
      [] call.method = "PUT" /\ call.resource = "contents/index.html" -> 5
      [] OTHER -> 0

\* C14: the calls of one request are a strictly ordered subsequence of
\* [GET base ref, POST create ref, GET README, DELETE README, PUT content]:
\* none is issued twice, a README DELETE precedes the PUT, and only the
\* last call issued can still be in flight.
C14_CallsStrictlyOrdered ==
    \A r \in Requests :
        LET calls == requests[r].calls IN
        \A i \in 1..Len(calls) :
            LET rank == Rank(calls[i]) IN
            /\ rank \in 1..5
            /\ i < Len(calls)
               => /\ rank < Rank(calls[i + 1])
                  /\ calls[i].result.kind # "pending"

C14_Witness ==
    \E r \in Requests :
        /\ Done(r)
        /\ Len(requests[r].calls) = 5
        /\ ContentPutFailed(r)
        /\ Answered(r, "DELETE", "contents/README.md", NotSucceeded)

IsReadmeGet(call) == call.method = "GET" /\ call.resource = "contents/README.md"

\* C15: a README DELETE directly follows a README GET that answered with a
\* success status and a content hash, and carries that hash and the
\* request's new branch; after a README GET answered with not-found or any
\* other non-success status the next call is the content PUT.
C15_DeleteOnlyWithHash ==
    \A r \in Requests :
        LET calls == requests[r].calls IN
        \A i \in 1..Len(calls) :
            calls[i].resource = "contents/README.md"
            => /\ calls[i].method = "DELETE"
                  => /\ i > 1
                     /\ IsReadmeGet(calls[i - 1])
                     /\ Succeeded(calls[i - 1].result)
                     /\ calls[i - 1].result.sha # ""
                     /\ calls[i].payload.sha = calls[i - 1].result.sha
                     /\ calls[i].branch = requests[r].branchName
                     /\ requests[r].branchName # NoBranch
               /\ (calls[i].method = "GET" /\ calls[i].result.kind = "response"
                      /\ ~Succeeded(calls[i].result))
                  => /\ i < Len(calls)
                     /\ IsContentPut(calls[i + 1])

C15_Witness ==
    \E r1, r2 \in Requests :
        /\ Issued(r1, "DELETE", "contents/README.md")
        /\ requests[r1].calls[4].payload.sha = "readmesha"
        /\ Answered(r2, "GET", "contents/README.md", LAMBDA res : res.status = 403)
        /\ Issued(r2, "PUT", "contents/index.html")

IsWrite(call) == call.method \in {"POST", "DELETE", "PUT"}
RefOf(branchName) == <<"refs/heads/", branchName>>
Created(r) ==
    \E i \in 1..Len(requests[r].calls) :
        /\ requests[r].calls[i].method = "POST"
        /\ requests[r].calls[i].branch = RefOf(requests[r].branchName)
        /\ Succeeded(requests[r].calls[i].result)
Results(r) == [i \in 1..Len(requests[r].calls) |-> requests[r].calls[i].result]

\* C17: every README GET, README DELETE and content PUT of a request names
\* the branch that request generated and created; no write of one request
\* names a branch generated by another; and two finished requests with the
\* same body, the same template read and the same answers to their calls
\* have the same outcome (up to the generated branch name).
C17_RequestsIndependent ==
    \A r1 \in Requests :
        LET calls == requests[r1].calls IN
        /\ \A i \in 1..Len(calls) :
               /\ calls[i].resource \in {"contents/README.md", "contents/index.html"}
                  => /\ calls[i].branch = requests[r1].branchName
                     /\ requests[r1].branchName # NoBranch
                     /\ Created(r1)
               /\ IsWrite(calls[i])
                  => \A r2 \in Requests \ {r1} :
                         requests[r2].branchName # NoBranch
                         => /\ calls[i].branch # requests[r2].branchName
                            /\ calls[i].branch # RefOf(requests[r2].branchName)
        /\ Done(r1)
           => \A r2 \in Requests \ {r1} :
                  (/\ Done(r2)
                   /\ requests[r2].body = requests[r1].body
                   /\ requests[r2].readFile = requests[r1].readFile
                   /\ Results(r2) = Results(r1))
                  => /\ requests[r2].response.status = requests[r1].response.status
                     /\ requests[r2].response.text = requests[r1].response.text
                     /\ IsSuccess(requests[r1].response)
                        => requests[r2].response.json.appliedFields
                               = requests[r1].response.json.appliedFields

C17_Witness ==
    \E r1, r2 \in Requests :
        /\ r1 # r2
        /\ Issued(r1, "PUT", "contents/index.html") /\ ~Done(r1)
        /\ Issued(r2, "DELETE", "contents/README.md") /\ ~Done(r2)
        /\ requests[r1].branchName # requests[r2].branchName

C17_WitnessSameOutcome ==
    \E r1, r2 \in Requests :
        /\ r1 # r2
        /\ Done(r1) /\ Done(r2)
        /\ ContentPutOk(r1) /\ ContentPutOk(r2)
        /\ Results(r1) = Results(r2)

\* C18: a request with a success response has had a successful base-ref
\* GET, create-ref POST and content PUT, and the branch, the branch URL and
\* the deploy-import URL of the response all name the branch it created and
\* committed to.
C18_SuccessNamesCommittedBranch ==
    \A r \in Requests :
        (Done(r) /\ IsSuccess(requests[r].response))
        => LET branch == requests[r].response.json.branch
               url == <<"https://github.com/", repoConfig.owner, "/", repoConfig.repo,
                        "/tree/", branch>>
           IN /\ BaseRefOk(r) /\ CreateRefOk(r) /\ ContentPutOk(r)
              /\ branch # NoBranch
              /\ \A i \in 1..Len(requests[r].calls) :
                     /\ requests[r].calls[i].method = "POST"
                        => requests[r].calls[i].branch = RefOf(branch)
                     /\ IsContentPut(requests[r].calls[i])
                        => requests[r].calls[i].branch = branch
              /\ requests[r].response.json.branchUrl = url
              /\ requests[r].response.json.vercelImportUrl
                     = <<"https://vercel.com/new/clone?repository-url=",
                         <<"encodeURIComponent", url>> >>

C18_Witness ==
    \E r \in Requests :
        /\ Done(r) /\ IsSuccess(requests[r].response)
        /\ Answered(r, "DELETE", "contents/README.md", Succeeded)
        /\ requests[r].response.json.branch = requests[r].calls[5].branch

\* C20: when the create-ref POST succeeded and the content PUT fails, the
\* request ends with a failure response, the PUT is its last call and it
\* never issues a call that deletes the new ref.
C20_NoRollback ==
    \A r \in Requests :
        (CreateRefOk(r) /\ ContentPutFailed(r))
        => LET calls == requests[r].calls IN
           /\ Done(r) /\ IsFailure(requests[r].response)
           /\ IsContentPut(calls[Len(calls)])
           /\ \A i \in 1..Len(calls) :
                  ~(calls[i].method = "DELETE" /\ calls[i].resource = "git/refs")

C20_Witness ==
    \E r \in Requests :
        /\ Done(r) /\ IsFailure(requests[r].response)
        /\ CreateRefOk(r)
        /\ Answered(r, "PUT", "contents/index.html", LAMBDA res : res.status = 403)
        /\ ~ContentPutOk(r)

AwaitingCall(r) ==
    requests[r].pc \in {"awaitBaseRef", "awaitCreateRef", "awaitReadmeGet",
                        "awaitReadmeDelete", "awaitContentPut"}
LastResult(req) == req.calls[Len(req.calls)].result

\* C19: when every await of a request resumes, a received request ends with
\* a response; once it has responded nothing of it changes (one response, no
\* further call); and a request waiting for an upstream call moves only by
\* that call completing, so it never responds while the call is in flight.
C19_ExactlyOneResponse ==
    /\ \A r \in Requests : Received(r) ~> Done(r)
    /\ [][\A r \in Requests :
              /\ Done(r) => requests'[r] = requests[r]
              /\ (AwaitingCall(r) /\ requests'[r] # requests[r])
                 => /\ LastResult(requests[r]).kind = "pending"
                    /\ requests'[r].calls[Len(requests[r].calls)].result.kind # "pending"]_vars

C19_Witness ==
    \E r1, r2 \in Requests :
        /\ Done(r1) /\ IsSuccess(requests[r1].response)
        /\ Done(r2) /\ IsFailure(requests[r2].response)
        /\ Len(requests[r2].calls) >= 1

====
